---- MODULE Spec2Model ----
(***************************************************************************)
(* deploy/python/infer_benchmark.py: the dataset benchmark of the Paddle   *)
(* Inference predictor.  parse_args -> main -> DatasetPredictor            *)
(* .test_dataset: the dataset is looked up in the registry, every sample   *)
(* is run through the predictor, the per-class intersect / pred / label    *)
(* areas are summed into three running totals, and mean IoU, accuracy and  *)
(* kappa are derived from the totals and logged.                           *)
(*                                                                         *)
(* paddleseg.utils.metrics (calculate_area, mean_iou, accuracy, kappa) is  *)
(* imported, not defined in this file: those operators follow the          *)
(* description of the accumulator in spec.md, section 4.1.                 *)
(***************************************************************************)
EXTENDS Integers, Sequences, FiniteSets, TLC

\* ---------------------------------------------------------------- bounds
\* Longest dataset of the streaming specification (len(dataset)).
MaxSamples == 2
\* Most pixels of one label map in the single-sample grid specification.
MaxPixels == 4
\* dataset.ignore_index, the sentinel of unlabeled ground-truth pixels.
IgnoreIndex == 255

\* dataset.num_classes of the datasets drawn.
ClassCounts == {1, 2}
\* Shapes (height, width) of the label maps of the streaming specification.
StreamShapes == {<<0, 0>>, <<1, 1>>, <<1, 2>>}
\* len(dataset) of the single-sample grid specification.
GridLens == {0, 1}
\* Seconds one predictor.run() may take (end_time - start_time, in whole
\* ticks), in the streaming and in the grid specification.
StreamElapsed == {1}
GridElapsed == {0, 1, 2}

\* Shapes with at most n pixels.
ShapesUpTo(n) ==
  {<<0, 0>>} \cup {s \in (1..n) \X (1..n) : s[1] * s[2] <= n}

\* ------------------------------------------------------------ label maps
\* A tensor of class indices: its shape and its elements in row-major order.
Tensor(shape, data) == [shape |-> shape, data |-> data]

NumPixels(shape) == shape[1] * shape[2]

\* Every tensor of a shape in shapes with elements in values.
Tensors(shapes, values) ==
  UNION {{Tensor(s, d) : d \in [1..NumPixels(s) -> values]} : s \in shapes}

\* Ground truth: class indices 0..C-1 or ignore_index.
LabelMaps(shapes, C) == Tensors(shapes, (0..(C - 1)) \cup {IgnoreIndex})

\* self.postprocess output: the argmax class of every pixel, 0..C-1.
PredMaps(shapes, C) == Tensors(shapes, 0..(C - 1))

\* -------------------------------------------------------- running totals
\* A number or an array as numpy sees it: dim 0 is a scalar (val holds one
\* element), dim 1 a vector with class c at val[c + 1].
Scalar(n) == [dim |-> 0, val |-> <<n>>]
Vector(seq) == [dim |-> 1, val |-> seq]
\* A local variable not assigned yet.
Unset == [dim |-> -1, val |-> <<>>]

ZeroVector(C) == Vector([i \in 1..C |-> 0])

\* a + b with numpy broadcasting of a scalar against a vector.
Add(a, b) ==
  IF a.dim = 0 /\ b.dim = 0 THEN Scalar(a.val[1] + b.val[1])
  ELSE IF a.dim = 0 THEN Vector([i \in 1..Len(b.val) |-> a.val[1] + b.val[i]])
  ELSE IF b.dim = 0 THEN Vector([i \in 1..Len(a.val) |-> a.val[i] + b.val[1]])
  ELSE Vector([i \in 1..Len(a.val) |-> a.val[i] + b.val[i]])

\* The entry of class c, a scalar standing for every class.
At(a, c) == IF a.dim = 0 THEN a.val[1] ELSE a.val[c + 1]

\* ------------------------------------------------------------- fractions
\* Metric values are exact fractions <<numerator, denominator>> in lowest
\* terms with a positive denominator.
RECURSIVE Gcd(_, _)
Gcd(a, b) == IF b = 0 THEN a ELSE Gcd(b, a % b)

Abs(n) == IF n < 0 THEN -n ELSE n

\* A quotient with no value (nothing to average, an empty total).
NaN == <<0, 0>>
\* The outcome of a division by zero that nothing guards.
DivisionFault == <<1, 0>>

Frac(n, d) ==
  LET g == Gcd(Abs(n), Abs(d))
      s == IF d < 0 THEN -1 ELSE 1
  IN <<(s * n) \div g, (s * d) \div g>>

\* n / d where the caller has not ruled out d = 0.
Div(n, d) == IF d = 0 THEN DivisionFault ELSE Frac(n, d)

FracZero == <<0, 1>>

FracAdd(x, y) == Frac(x[1] * y[2] + y[1] * x[2], x[2] * y[2])

RECURSIVE SumInts(_)
SumInts(seq) == IF seq = <<>> THEN 0 ELSE Head(seq) + SumInts(Tail(seq))

RECURSIVE SumFracs(_)
SumFracs(seq) ==
  IF seq = <<>> THEN FracZero ELSE FracAdd(Head(seq), SumFracs(Tail(seq)))

\* The elements of seq at the indices in keep, in order.
RECURSIVE Pick(_, _, _)
Pick(seq, keep, i) ==
  IF i > Len(seq) THEN <<>>
  ELSE (IF i \in keep THEN <<seq[i]>> ELSE <<>>) \o Pick(seq, keep, i + 1)

\* -------------------------------------------------------- calculate_area
Bump(seq, i) == [seq EXCEPT ![i] = @ + 1]

\* AreaOfPixel with the ignore mask applied to the ground truth only: the
\* prediction of an ignored pixel still counts toward the pred area.
AreaOfPixelUnmasked(acc, p, g, C, ignore_index) ==
  [intersect |-> IF p = g /\ p \in 0..(C - 1)
                 THEN Bump(acc.intersect, p + 1) ELSE acc.intersect,
   pred |-> IF p \in 0..(C - 1) THEN Bump(acc.pred, p + 1) ELSE acc.pred,
   label |-> IF g \in 0..(C - 1) THEN Bump(acc.label, g + 1) ELSE acc.label]

\* One pixel's contribution: nothing when the ground truth is ignore_index,
\* else the predicted class's pred area, the true class's label area, and
\* the intersect area where they agree.
AreaOfPixel(acc, p, g, C, ignore_index) ==
  IF g = ignore_index THEN acc
  ELSE [intersect |-> IF p = g /\ p \in 0..(C - 1)
                      THEN Bump(acc.intersect, p + 1) ELSE acc.intersect,
        pred |-> IF p \in 0..(C - 1) THEN Bump(acc.pred, p + 1) ELSE acc.pred,
        label |-> IF g \in 0..(C - 1) THEN Bump(acc.label, g + 1) ELSE acc.label]

RECURSIVE AreaFold(_, _, _, _, _, _)
AreaFold(acc, pred_data, label_data, k, C, ignore_index) ==
  IF k > Len(label_data) THEN acc
  ELSE AreaFold(AreaOfPixel(acc, pred_data[k], label_data[k], C, ignore_index),
                pred_data, label_data, k + 1, C, ignore_index)

\* metrics.calculate_area(pred, label, num_classes, ignore_index): the three
\* per-class areas of one sample, or a failure when the shapes differ.
CalculateArea(pred, label, num_classes, ignore_index) ==
  IF pred.shape # label.shape
  THEN [ok |-> FALSE, intersect |-> Unset, pred |-> Unset, label |-> Unset]
  ELSE LET zero == [i \in 1..num_classes |-> 0]
           sums == AreaFold([intersect |-> zero, pred |-> zero, label |-> zero],
                            pred.data, label.data, 1, num_classes, ignore_index)
       IN [ok |-> TRUE,
           intersect |-> Vector(sums.intersect),
           pred |-> Vector(sums.pred),
           label |-> Vector(sums.label)]

\* ------------------------------------------------------------- mean_iou
\* iou of one class: 0 when the union is empty.
ClassIou(intersect, union) ==
  IF union = 0 THEN FracZero ELSE Div(intersect, union)

\* MeanOver averaging every class, the classes outside valid included.
MeanOverAll(values, valid) ==
  LET total == SumFracs(values)
  IN Frac(total[1], total[2] * Len(values))

\* The mean of the per-class values over the classes in valid.
MeanOver(values, valid) ==
  IF valid = {} THEN NaN
  ELSE LET kept == Pick(values, valid, 1)
           total == SumFracs(kept)
       IN Frac(total[1], total[2] * Cardinality(valid))

\* metrics.mean_iou(intersect_area, pred_area, label_area): the per-class
\* IoU and its mean over the classes whose union is not empty.
MeanIou(intersect_area, pred_area, label_area) ==
  LET n == Len(intersect_area.val)
      union == [i \in 1..n |->
                  pred_area.val[i] + label_area.val[i] - intersect_area.val[i]]
      class_iou == [i \in 1..n |-> ClassIou(intersect_area.val[i], union[i])]
  IN [class_iou |-> class_iou,
      miou |-> MeanOver(class_iou, {i \in 1..n : union[i] # 0})]

\* metrics.accuracy(intersect_area, pred_area): per-class intersect / pred
\* (0 for a class never predicted) and sum(intersect) / sum(pred).
Accuracy(intersect_area, pred_area) ==
  LET n == Len(intersect_area.val)
      total == SumInts(pred_area.val)
  IN [class_acc |-> [i \in 1..n |->
                       IF pred_area.val[i] = 0 THEN FracZero
                       ELSE Frac(intersect_area.val[i], pred_area.val[i])],
      acc |-> IF total = 0 THEN NaN
              ELSE Frac(SumInts(intersect_area.val), total)]

\* metrics.kappa(intersect_area, pred_area, label_area): Cohen's kappa,
\* (po - pe) / (1 - pe) with po = sum(intersect) / total and
\* pe = sum(pred * label) / total^2; 0 when pe = 1.
Kappa(intersect_area, pred_area, label_area) ==
  LET n == Len(intersect_area.val)
      total == SumInts(label_area.val)
      agree == SumInts(intersect_area.val)
      chance == SumInts([i \in 1..n |-> pred_area.val[i] * label_area.val[i]])
  IN IF total = 0 THEN NaN
     ELSE IF chance = total * total THEN FracZero
     ELSE Frac(agree * total - chance, total * total - chance)

\* ------------------------------------------------------------ the program
VARIABLES
  args,                \* parse_args' namespace: cfg, dataset_type, dataset_path
  pc,                  \* the statement the run is at
  error,               \* the exception that ended the run, "" for none
  predictor,           \* whether DatasetPredictor(args) has been constructed
  dataset,             \* the dataset object: built, len, num_classes
  idx,                 \* enumerate's index of the sample in hand
  labels,              \* the labels read from the dataset so far
  preds,               \* the post-processed predictor outputs so far
  area,                \* calculate_area's result for the sample in hand
  intersect_area_all,
  pred_area_all,
  label_area_all,
  total_time,
  progbar_val,         \* Progbar: its target and the value last shown
  metrics,             \* mean_iou, accuracy, kappa results
  derive_calls,        \* how often the metrics have been derived
  report,              \* the logger.info lines emitted, in order
  acc,                 \* independent accumulators, by name
  feed                 \* the samples each accumulator has still to take

vars == <<args, pc, error, predictor, dataset, idx, labels, preds, area,
          intersect_area_all, pred_area_all, label_area_all, total_time,
          progbar_val, metrics, derive_calls, report, acc, feed>>

run_vars == <<args, pc, error, predictor, dataset, idx, labels, preds, area,
              intersect_area_all, pred_area_all, label_area_all, total_time,
              progbar_val, metrics, derive_calls, report>>

\* An option that was not given on the command line (its default, None).
Absent == "<None>"

CfgValues == {Absent, "deploy.yaml"}
DatasetTypeValues == {Absent, "", "Cityscapes", "NoSuchDataset"}
DatasetPathValues == {Absent, "", "data/cityscapes"}

\* manager.DATASETS.components_dict: the registered dataset kinds.
Registry == {"Cityscapes", "PascalVOC", "ADE20K"}

\* Python truthiness of an optional string.
Truthy(v) == v # Absent /\ v # ""

NoDataset == [built |-> FALSE, len |-> 0, num_classes |-> 0]
NoArea == [ok |-> FALSE, intersect |-> Unset, pred |-> Unset, label |-> Unset]
NoMetrics == [class_iou |-> <<>>, miou |-> NaN, class_acc |-> <<>>,
              acc |-> NaN, kappa |-> NaN]
NoProgbar == [target |-> -1, value |-> 0]

RunInit ==
  /\ args \in [cfg : CfgValues, dataset_type : DatasetTypeValues,
               dataset_path : DatasetPathValues]
  /\ pc = "parse_args"
  /\ error = ""
  /\ predictor = FALSE
  /\ dataset = NoDataset
  /\ idx = 0
  /\ labels = <<>>
  /\ preds = <<>>
  /\ area = NoArea
  /\ intersect_area_all = Unset
  /\ pred_area_all = Unset
  /\ label_area_all = Unset
  /\ total_time = 0
  /\ progbar_val = NoProgbar
  /\ metrics = NoMetrics
  /\ derive_calls = 0
  /\ report = <<>>

Init ==
  /\ RunInit
  /\ acc = <<>>
  /\ feed = <<>>

\* An uncaught exception: the run ends here.
Raise(exc) ==
  /\ pc' = "fault"
  /\ error' = exc

\* parse_args: --config, --dataset_type and --dataset_path are required;
\* argparse exits when one is not given.
ParseArgs ==
  /\ pc = "parse_args"
  /\ IF args.cfg = Absent \/ args.dataset_type = Absent
        \/ args.dataset_path = Absent
     THEN Raise("SystemExit")
     ELSE pc' = "main" /\ error' = error
  /\ UNCHANGED <<args, predictor, dataset, idx, labels, preds, area,
                 intersect_area_all, pred_area_all, label_area_all,
                 total_time, progbar_val, metrics, derive_calls, report,
                 acc, feed>>

\* Main testing the dataset when either option is set.
MainEither ==
  /\ pc = "main"
  /\ predictor' = TRUE
  /\ IF Truthy(args.dataset_type) \/ Truthy(args.dataset_path)
     THEN pc' = "test_dataset" /\ error' = error
     ELSE Raise("RuntimeError: Please set dataset_type and dataset_path.")
  /\ UNCHANGED <<args, dataset, idx, labels, preds, area,
                 intersect_area_all, pred_area_all, label_area_all,
                 total_time, progbar_val, metrics, derive_calls, report,
                 acc, feed>>

\* main: construct the predictor, then test the dataset when both
\* dataset_type and dataset_path are set.
Main ==
  /\ pc = "main"
  /\ predictor' = TRUE
  /\ IF Truthy(args.dataset_type) /\ Truthy(args.dataset_path)
     THEN pc' = "test_dataset" /\ error' = error
     ELSE Raise("RuntimeError: Please set dataset_type and dataset_path.")
  /\ UNCHANGED <<args, dataset, idx, labels, preds, area,
                 intersect_area_all, pred_area_all, label_area_all,
                 total_time, progbar_val, metrics, derive_calls, report,
                 acc, feed>>

\* CheckDatasetType without the lookup: any dataset type goes on.
CheckDatasetTypeSkipped ==
  /\ pc = "test_dataset"
  /\ pc' = "construct"
  /\ UNCHANGED <<args, error, predictor, dataset, idx, labels, preds, area,
                 intersect_area_all, pred_area_all, label_area_all,
                 total_time, progbar_val, metrics, derive_calls, report,
                 acc, feed>>

\* test_dataset, the registry lookup.
CheckDatasetType ==
  /\ pc = "test_dataset"
  /\ IF args.dataset_type \notin Registry
     THEN Raise("RuntimeError: The dataset is not supported.")
     ELSE pc' = "construct" /\ error' = error
  /\ UNCHANGED <<args, predictor, dataset, idx, labels, preds, area,
                 intersect_area_all, pred_area_all, label_area_all,
                 total_time, progbar_val, metrics, derive_calls, report,
                 acc, feed>>

\* dataset = comp[dataset_type](**kwargs): some dataset of the kind, of a
\* length in lens.
ConstructDataset(lens) ==
  /\ pc = "construct"
  /\ \E n \in lens, C \in ClassCounts :
       dataset' = [built |-> TRUE, len |-> n, num_classes |-> C]
  /\ pc' = "init"
  /\ UNCHANGED <<args, error, predictor, idx, labels, preds, area,
                 intersect_area_all, pred_area_all, label_area_all,
                 total_time, progbar_val, metrics, derive_calls, report,
                 acc, feed>>

\* The running totals as test_dataset first assigns them.
InitialTotal == Scalar(0)

\* The handles, the running totals, total_time and the progress bar.
InitTotals ==
  /\ pc = "init"
  /\ intersect_area_all' = InitialTotal
  /\ pred_area_all' = InitialTotal
  /\ label_area_all' = InitialTotal
  /\ total_time' = 0
  /\ progbar_val' = [target |-> dataset.len, value |-> 0]
  /\ pc' = "loop"
  /\ UNCHANGED <<args, error, predictor, dataset, idx, labels, preds, area,
                 metrics, derive_calls, report, acc, feed>>

\* HasNext stopping one sample short.
HasNextShort == idx < dataset.len - 1

\* enumerate(dataset) has another sample to yield.
HasNext == idx < dataset.len

\* for idx, (img, label) in enumerate(dataset): the next label is read from
\* the dataset (the image goes to the predictor).
ReadSample(shapes) ==
  /\ pc = "loop"
  /\ HasNext
  /\ \E lab \in LabelMaps(shapes, dataset.num_classes) :
       labels' = Append(labels, lab)
  /\ pc' = "run"
  /\ UNCHANGED <<args, error, predictor, dataset, idx, preds, area,
                 intersect_area_all, pred_area_all, label_area_all,
                 total_time, progbar_val, metrics, derive_calls, report,
                 acc, feed>>

\* The dataset is exhausted: on to the metrics.
LoopExit ==
  /\ pc = "loop"
  /\ ~HasNext
  /\ pc' = "derive"
  /\ UNCHANGED <<args, error, predictor, dataset, idx, labels, preds, area,
                 intersect_area_all, pred_area_all, label_area_all,
                 total_time, progbar_val, metrics, derive_calls, report,
                 acc, feed>>

\* The image is copied in, the predictor runs once under the timer, and its
\* output is post-processed into a map of predicted classes.
RunPredictor(shapes, elapsed) ==
  /\ pc = "run"
  /\ \E e \in elapsed : total_time' = total_time + e
  /\ \E p \in PredMaps(shapes, dataset.num_classes) :
       preds' = Append(preds, p)
  /\ pc' = "area"
  /\ UNCHANGED <<args, error, predictor, dataset, idx, labels, area,
                 intersect_area_all, pred_area_all, label_area_all,
                 progbar_val, metrics, derive_calls, report, acc, feed>>

\* The call of metrics.calculate_area for a sample of a dataset.
AreaOfSample(pred, label, num_classes) ==
  CalculateArea(pred, label, num_classes, IgnoreIndex)

\* intersect_area, pred_area, label_area = metrics.calculate_area(...)
CalcArea ==
  /\ pc = "area"
  /\ LET r == AreaOfSample(preds[idx + 1], labels[idx + 1], dataset.num_classes)
     IN IF r.ok
        THEN area' = r /\ pc' = "accumulate" /\ error' = error
        ELSE area' = area /\ Raise("ValueError: shape mismatch")
  /\ UNCHANGED <<args, predictor, dataset, idx, labels, preds,
                 intersect_area_all, pred_area_all, label_area_all,
                 total_time, progbar_val, metrics, derive_calls, report,
                 acc, feed>>

\* AccumulateArea with the intersect total fed the pred area (the second
\* line's operand in the first line).
AccumulateAreaCopied(totals, a) ==
  [intersect |-> Add(totals.intersect, a.pred),
   pred |-> Add(totals.pred, a.pred),
   label |-> Add(totals.label, a.label)]

\* AccumulateArea assigning the sample's areas instead of adding them.
AccumulateAreaOverwrite(totals, a) ==
  [intersect |-> a.intersect, pred |-> a.pred, label |-> a.label]

\* AccumulateArea with the pred and label areas exchanged.
AccumulateAreaSwapped(totals, a) ==
  [intersect |-> Add(totals.intersect, a.intersect),
   pred |-> Add(totals.pred, a.label),
   label |-> Add(totals.label, a.pred)]

\* The three running totals after one sample's areas are added.
AccumulateArea(totals, a) ==
  [intersect |-> Add(totals.intersect, a.intersect),
   pred |-> Add(totals.pred, a.pred),
   label |-> Add(totals.label, a.label)]

Totals ==
  [intersect |-> intersect_area_all, pred |-> pred_area_all,
   label |-> label_area_all]

Accumulate ==
  /\ pc = "accumulate"
  /\ LET t == AccumulateArea(Totals, area)
     IN /\ intersect_area_all' = t.intersect
        /\ pred_area_all' = t.pred
        /\ label_area_all' = t.label
  /\ pc' = "progbar"
  /\ UNCHANGED <<args, error, predictor, dataset, idx, labels, preds, area,
                 total_time, progbar_val, metrics, derive_calls, report,
                 acc, feed>>

\* ProgressValue showing the index itself.
ProgressValueStale(i) == i

\* The value shown for the sample of index i.
ProgressValue(i) == i + 1

\* progbar_val.update(idx + 1); enumerate then moves to the next index.
ProgbarUpdate ==
  /\ pc = "progbar"
  /\ progbar_val' = [progbar_val EXCEPT !.value = ProgressValue(idx)]
  /\ idx' = idx + 1
  /\ pc' = "loop"
  /\ UNCHANGED <<args, error, predictor, dataset, labels, preds, area,
                 intersect_area_all, pred_area_all, label_area_all,
                 total_time, metrics, derive_calls, report, acc, feed>>

\* mean_iou, accuracy and kappa of the running totals.
Derived(totals) ==
  LET iou == MeanIou(totals.intersect, totals.pred, totals.label)
      accuracy == Accuracy(totals.intersect, totals.pred)
  IN [class_iou |-> iou.class_iou, miou |-> iou.miou,
      class_acc |-> accuracy.class_acc, acc |-> accuracy.acc,
      kappa |-> Kappa(totals.intersect, totals.pred, totals.label)]

\* Some quotient of m was a division by zero.
Raised(m) ==
  \/ \E i \in 1..Len(m.class_iou) : m.class_iou[i] = DivisionFault
  \/ \E i \in 1..Len(m.class_acc) : m.class_acc[i] = DivisionFault
  \/ DivisionFault \in {m.miou, m.acc, m.kappa}

\* The three metric calls after the loop.
DeriveMetrics ==
  /\ pc = "derive"
  /\ derive_calls' = derive_calls + 1
  /\ LET m == Derived(Totals)
     IN IF Raised(m)
        THEN metrics' = metrics /\ Raise("ZeroDivisionError")
        ELSE metrics' = m /\ pc' = "report" /\ error' = error
  /\ UNCHANGED <<args, predictor, dataset, idx, labels, preds, area,
                 intersect_area_all, pred_area_all, label_area_all,
                 total_time, progbar_val, report, acc, feed>>

\* The totals of an empty dataset are still the integers of their first
\* assignment, not arrays: a metrics module that asks them for their array
\* fails, one that takes them as one-element arrays goes on (DeriveMetrics).
DeriveRejected ==
  /\ pc = "derive"
  /\ intersect_area_all.dim = 0
  /\ derive_calls' = derive_calls + 1
  /\ Raise("AttributeError")
  /\ UNCHANGED <<args, predictor, dataset, idx, labels, preds, area,
                 intersect_area_all, pred_area_all, label_area_all,
                 total_time, progbar_val, metrics, report, acc, feed>>

\* The three [EVAL] lines: the summary, the class IoU and the class Acc.
ReportMetrics ==
  /\ pc = "report"
  /\ report' = report \o
       << [tag |-> "summary",
           values |-> <<dataset.len, metrics.miou, metrics.acc, metrics.kappa>>],
          [tag |-> "class_iou", values |-> metrics.class_iou],
          [tag |-> "class_acc", values |-> metrics.class_acc] >>
  /\ pc' = "average_time"
  /\ UNCHANGED <<args, error, predictor, dataset, idx, labels, preds, area,
                 intersect_area_all, pred_area_all, label_area_all,
                 total_time, progbar_val, metrics, derive_calls, acc, feed>>

\* AverageTime with a default of 0 for an empty dataset.
AverageTimeDefault(total, n) == IF n = 0 THEN FracZero ELSE Frac(total, n)

\* total_time / len(dataset)
AverageTime(total, n) == Div(total, n)

\* The last [EVAL] line, the average time per image.
ReportAverageTime ==
  /\ pc = "average_time"
  /\ LET avg == AverageTime(total_time, dataset.len)
     IN IF avg = DivisionFault
        THEN report' = report /\ Raise("ZeroDivisionError")
        ELSE /\ report' = Append(report, [tag |-> "average_time",
                                          values |-> <<avg>>])
             /\ pc' = "done"
             /\ error' = error
  /\ UNCHANGED <<args, predictor, dataset, idx, labels, preds, area,
                 intersect_area_all, pred_area_all, label_area_all,
                 total_time, progbar_val, metrics, derive_calls, acc, feed>>

\* One step of a run whose dataset has a length in lens and label maps of
\* the shapes in shapes, and whose predictor takes a time in elapsed.
Step(lens, shapes, elapsed) ==
  \/ ParseArgs
  \/ Main
  \/ CheckDatasetType
  \/ ConstructDataset(lens)
  \/ InitTotals
  \/ ReadSample(shapes)
  \/ LoopExit
  \/ RunPredictor(shapes, elapsed)
  \/ CalcArea
  \/ Accumulate
  \/ ProgbarUpdate
  \/ DeriveMetrics
  \/ DeriveRejected
  \/ ReportMetrics
  \/ ReportAverageTime

\* Streaming: datasets of up to MaxSamples small samples.
Next == Step(0..MaxSamples, StreamShapes, StreamElapsed)

Spec == Init /\ [][Next]_vars

\* Grids: datasets of at most one sample of up to MaxPixels pixels.
GridNext == Step(GridLens, ShapesUpTo(MaxPixels), GridElapsed)

GridSpec == Init /\ [][GridNext]_vars

\* ------------------------------------------------ independent accumulators
\* Two samples A = 1 and B = 2 (labels[i], preds[i]) are accumulated five
\* ways: in one pass of the loop over [A, B]; A and then B into one
\* accumulator; B and then A; and A and B into two accumulators of their
\* own, whose totals are then summed.
StartTotals ==
  [intersect |-> InitialTotal, pred |-> InitialTotal, label |-> InitialTotal]

UnsetTotals == [intersect |-> Unset, pred |-> Unset, label |-> Unset]

\* The loop of test_dataset over the samples of the indices in order.
RECURSIVE RunLoop(_, _)
RunLoop(totals, order) ==
  IF order = <<>> THEN totals
  ELSE RunLoop(AccumulateArea(totals,
                 AreaOfSample(preds[Head(order)], labels[Head(order)],
                              dataset.num_classes)),
               Tail(order))

\* The element-wise sum of two accumulators' totals.
SumTotals(x, y) ==
  [intersect |-> Add(x.intersect, y.intersect),
   pred |-> Add(x.pred, y.pred),
   label |-> Add(x.label, y.label)]

Stepwise == {"same", "swapped", "left", "right"}

AssocInit ==
  /\ args = [cfg |-> "deploy.yaml", dataset_type |-> "Cityscapes",
             dataset_path |-> "data/cityscapes"]
  /\ pc = "accumulators"
  /\ error = ""
  /\ predictor = TRUE
  /\ \E C \in ClassCounts :
       /\ dataset = [built |-> TRUE, len |-> 2, num_classes |-> C]
       /\ labels \in [1..2 -> LabelMaps(StreamShapes, C)]
       /\ preds \in [1..2 -> PredMaps(StreamShapes, C)]
  /\ \A i \in 1..2 : preds[i].shape = labels[i].shape
  /\ idx = 0
  /\ area = NoArea
  /\ intersect_area_all = Unset
  /\ pred_area_all = Unset
  /\ label_area_all = Unset
  /\ total_time = 0
  /\ progbar_val = NoProgbar
  /\ metrics = NoMetrics
  /\ derive_calls = 0
  /\ report = <<>>
  /\ acc = [a \in Stepwise |-> StartTotals] @@
           ("one_pass" :> UnsetTotals) @@ ("merged" :> UnsetTotals)
  /\ feed = ("same" :> <<1, 2>>) @@ ("swapped" :> <<2, 1>>) @@
            ("left" :> <<1>>) @@ ("right" :> <<2>>)

\* Accumulator a takes its next sample.
Take(a) ==
  /\ feed[a] # <<>>
  /\ acc' = [acc EXCEPT ![a] = RunLoop(@, <<Head(feed[a])>>)]
  /\ feed' = [feed EXCEPT ![a] = Tail(@)]
  /\ UNCHANGED run_vars

\* The whole loop over [A, B] from fresh totals.
OnePass ==
  /\ acc["one_pass"] = UnsetTotals
  /\ acc' = [acc EXCEPT !["one_pass"] = RunLoop(StartTotals, <<1, 2>>)]
  /\ UNCHANGED <<feed, run_vars>>

\* The reduction: the totals of "left" and "right" summed.
Reduce ==
  /\ feed["left"] = <<>>
  /\ feed["right"] = <<>>
  /\ acc["merged"] = UnsetTotals
  /\ acc' = [acc EXCEPT !["merged"] = SumTotals(acc["left"], acc["right"])]
  /\ UNCHANGED <<feed, run_vars>>

AssocNext ==
  \/ \E a \in Stepwise : Take(a)
  \/ OnePass
  \/ Reduce

AssocSpec == AssocInit /\ [][AssocNext]_vars

\* ------------------------------------------------------------ properties
Classes == 0..(dataset.num_classes - 1)

\* The totals have been assigned (the loop has been reached).
TotalsAssigned ==
  /\ intersect_area_all # Unset
  /\ pred_area_all # Unset
  /\ label_area_all # Unset

SampleArea(i) == AreaOfSample(preds[i], labels[i], dataset.num_classes)

\* The three areas of the first k samples summed class by class, as plain
\* sequences with class c at index c + 1.
RECURSIVE SumOfAreas(_)
SumOfAreas(k) ==
  IF k = 0
  THEN LET zero == [i \in 1..dataset.num_classes |-> 0]
       IN [intersect |-> zero, pred |-> zero, label |-> zero]
  ELSE LET rest == SumOfAreas(k - 1)
           a == SampleArea(k)
       IN [intersect |-> [i \in 1..dataset.num_classes |->
                            rest.intersect[i] + a.intersect.val[i]],
           pred |-> [i \in 1..dataset.num_classes |->
                       rest.pred[i] + a.pred.val[i]],
           label |-> [i \in 1..dataset.num_classes |->
                        rest.label[i] + a.label.val[i]]]

\* The running totals are those of exactly the first k samples.
TotalsOfFirst(k) ==
  LET sum == SumOfAreas(k)
  IN \A c \in Classes :
       /\ At(intersect_area_all, c) = sum.intersect[c + 1]
       /\ At(pred_area_all, c) = sum.pred[c + 1]
       /\ At(label_area_all, c) = sum.label[c + 1]

\* The first sample of the dataset has been accumulated.
FirstAccumulated == pc = "progbar" \/ (dataset.built /\ idx >= 1)

\* The run has stopped.
Stopped == ~ENABLED Next

\* C1: after any number of accumulate steps, none included, the intersect
\* total of every class is at most its pred total and at most its label
\* total.
C1_IntersectWithinAreas ==
  TotalsAssigned =>
    \A c \in Classes :
      /\ At(intersect_area_all, c) <= At(pred_area_all, c)
      /\ At(intersect_area_all, c) <= At(label_area_all, c)

C1_Witness ==
  /\ pc = "loop"
  /\ idx = 2
  /\ \E c \in Classes :
       /\ At(intersect_area_all, c) >= 1
       /\ At(intersect_area_all, c) < At(pred_area_all, c)
  /\ \E c \in Classes : At(intersect_area_all, c) < At(label_area_all, c)

\* Every accumulator has taken all its samples and the two separate ones
\* have been summed.
AllAccumulated ==
  /\ \A a \in Stepwise : feed[a] = <<>>
  /\ acc["one_pass"] # UnsetTotals
  /\ acc["merged"] # UnsetTotals

\* C2: for any samples A and B, one pass over [A, B], A and then B into one
\* accumulator, B and then A, and the element-wise sum of two accumulators
\* that took A and B separately all end with the same three totals.
C2_AccumulationAssociative ==
  AllAccumulated =>
    /\ acc["one_pass"] = acc["same"]
    /\ acc["same"] = acc["merged"]
    /\ acc["swapped"] = acc["same"]

C2_Witness ==
  /\ AllAccumulated
  /\ acc["left"] # acc["right"]
  /\ \E i \in 1..dataset.num_classes :
       acc["left"].intersect.val[i] >= 1 /\ acc["right"].pred.val[i] >= 1
  /\ acc["merged"].label.val # acc["left"].label.val

\* Tensor t without its element k, as a single row.
Without(t, k) ==
  Tensor(<<1, Len(t.data) - 1>>,
         [i \in 1..(Len(t.data) - 1) |->
            IF i < k THEN t.data[i] ELSE t.data[i + 1]])

\* C3: a pixel whose ground truth is ignore_index adds to none of the three
\* totals, whatever its predicted class: the totals of a sample with such a
\* pixel are those of the sample without that pixel.
C3_IgnoredPixelAddsNothing ==
  FirstAccumulated /\ dataset.len = 1 =>
    \A k \in 1..Len(labels[1].data) :
      labels[1].data[k] = IgnoreIndex =>
        Totals = AccumulateArea(StartTotals,
                   AreaOfSample(Without(preds[1], k), Without(labels[1], k),
                                dataset.num_classes))

C3_Witness ==
  /\ pc = "done"
  /\ dataset.num_classes = 2
  /\ Len(labels[1].data) = 3
  /\ labels[1].data[2] = IgnoreIndex
  /\ preds[1].data[2] = 1
  /\ labels[1].data[1] = 1
  /\ preds[1].data[1] = 1
  /\ labels[1].data[3] = 0

\* The positions of a label map.
Pixels(t) == 1..Len(t.data)

\* C4: one accumulate step adds to the label total of class c the pixels
\* with ground truth c, to the pred total the pixels predicted c whose
\* ground truth is not ignored, to the intersect total the pixels predicted
\* c with ground truth c; ground truth [[0,1],[1,0]] and prediction
\* [[0,1],[1,1]] with 2 classes give label [2,2], pred [1,3], intersect
\* [1,2], IoU [1/2, 2/3] (mean 7/12) and accuracy 3/4.
C4_AreasCountPixels ==
  /\ FirstAccumulated /\ dataset.len = 1 =>
       \A c \in Classes :
         /\ At(label_area_all, c) =
              Cardinality({k \in Pixels(labels[1]) : labels[1].data[k] = c})
         /\ At(pred_area_all, c) =
              Cardinality({k \in Pixels(labels[1]) :
                             /\ preds[1].data[k] = c
                             /\ labels[1].data[k] # IgnoreIndex})
         /\ At(intersect_area_all, c) =
              Cardinality({k \in Pixels(labels[1]) :
                             /\ preds[1].data[k] = c
                             /\ labels[1].data[k] = c})
  /\ ( /\ pc \in {"report", "average_time", "done"}
       /\ dataset.num_classes = 2
       /\ labels = <<Tensor(<<2, 2>>, <<0, 1, 1, 0>>)>>
       /\ preds = <<Tensor(<<2, 2>>, <<0, 1, 1, 1>>)>> ) =>
       /\ label_area_all = Vector(<<2, 2>>)
       /\ pred_area_all = Vector(<<1, 3>>)
       /\ intersect_area_all = Vector(<<1, 2>>)
       /\ metrics.class_iou = << <<1, 2>>, <<2, 3>> >>
       /\ metrics.miou = <<7, 12>>
       /\ metrics.acc = <<3, 4>>

C4_Witness ==
  /\ pc = "done"
  /\ dataset.num_classes = 2
  /\ labels = <<Tensor(<<2, 2>>, <<0, 1, 1, 0>>)>>
  /\ preds = <<Tensor(<<2, 2>>, <<0, 1, 1, 1>>)>>
  /\ metrics.acc = <<3, 4>>

NotSupported == "RuntimeError: The dataset is not supported."

\* Nothing of the evaluation has happened: no dataset, no sample read, no
\* predictor run, no totals, no metrics, no report line.
NothingProcessed ==
  /\ ~dataset.built
  /\ labels = <<>>
  /\ preds = <<>>
  /\ ~TotalsAssigned
  /\ derive_calls = 0
  /\ report = <<>>

\* C5: with a dataset type that is not registered, test_dataset fails at
\* once with the fatal "not supported" error: nothing is processed and the
\* run stops there, with no further attempt.
C5_UnsupportedDatasetFails ==
  args.dataset_type \notin Registry =>
    /\ pc \in {"parse_args", "main", "test_dataset", "fault"}
    /\ NothingProcessed
    /\ (pc = "fault" /\ Truthy(args.dataset_type) /\ Truthy(args.dataset_path)
          /\ args.cfg # Absent => error = NotSupported)
    /\ (pc = "fault" => Stopped)
    /\ (Stopped => pc = "fault")

C5_Witness ==
  /\ pc = "fault"
  /\ error = NotSupported
  /\ args.dataset_type = "NoSuchDataset"
  /\ predictor

PleaseSet == "RuntimeError: Please set dataset_type and dataset_path."

\* C6: with dataset_type or dataset_path absent or empty, the run ends in a
\* fatal error before any processing: test_dataset is never entered, no
\* sample is read and the predictor never runs.
C6_MissingParametersFail ==
  ~Truthy(args.dataset_type) \/ ~Truthy(args.dataset_path) =>
    /\ pc \in {"parse_args", "main", "fault"}
    /\ NothingProcessed
    /\ (pc = "fault" => error \in {"SystemExit", PleaseSet})
    /\ (Stopped => pc = "fault")

C6_Witness ==
  /\ pc = "fault"
  /\ error = PleaseSet
  /\ args.dataset_type = "Cityscapes"
  /\ args.dataset_path = ""

\* The metrics have been derived from the totals without a failure.
MetricsDerived == metrics # NoMetrics

\* The union of class i (index i, class i - 1) in the running totals.
UnionArea(i) ==
  pred_area_all.val[i] + label_area_all.val[i] - intersect_area_all.val[i]

\* The classes of the running totals with a nonzero union.
NonEmptyClasses ==
  {i \in 1..Len(intersect_area_all.val) : UnionArea(i) # 0}

RECURSIVE SumOver(_, _)
SumOver(values, indices) ==
  IF indices = {} THEN FracZero
  ELSE LET i == CHOOSE j \in indices : TRUE
       IN FracAdd(values[i], SumOver(values, indices \ {i}))

\* C7: in the mean IoU of the final totals, a class whose union pred +
\* label - intersect is zero has IoU 0 and is left out of the mean, which
\* is taken over the classes with a nonzero union only; the derivation
\* never ends in a division by zero.
C7_EmptyClassesLeftOut ==
  derive_calls >= 1 =>
    /\ (error = "ZeroDivisionError" => MetricsDerived)
    /\ MetricsDerived =>
         /\ \A i \in 1..Len(metrics.class_iou) :
              /\ UnionArea(i) = 0 => metrics.class_iou[i] = FracZero
              /\ UnionArea(i) # 0 =>
                   metrics.class_iou[i] =
                     Frac(intersect_area_all.val[i], UnionArea(i))
         /\ NonEmptyClasses # {} =>
              /\ metrics.miou[2] > 0
              /\ Frac(metrics.miou[1] * Cardinality(NonEmptyClasses),
                      metrics.miou[2])
                 = SumOver(metrics.class_iou, NonEmptyClasses)

C7_Witness ==
  /\ pc = "done"
  /\ dataset.len = 2
  /\ dataset.num_classes = 2
  /\ UnionArea(1) = 0
  /\ UnionArea(2) = 2
  /\ metrics.class_iou = << <<0, 1>>, <<1, 1>> >>
  /\ metrics.miou = <<1, 1>>

\* The line of the average time has been logged.
AverageTimeLogged == \E i \in 1..Len(report) : report[i].tag = "average_time"

\* C8: a run over a dataset of length zero ends in a fatal error: it never
\* completes, and it logs no average time, so no complete summary report.
C8_EmptyDatasetFails ==
  dataset.built /\ dataset.len = 0 =>
    /\ pc # "done"
    /\ ~AverageTimeLogged
    /\ (Stopped => pc = "fault")
    /\ (pc = "fault" => error \in {"ZeroDivisionError", "AttributeError"})

C8_Witness ==
  /\ dataset.built
  /\ dataset.len = 0
  /\ pc = "fault"
  /\ error = "ZeroDivisionError"
  /\ Len(report) = 3

\* C9: the samples are processed one after the other, each exactly once:
\* at the head of the loop after k iterations, k samples have been read, the
\* predictor has run k times, the progress bar shows k and the totals are
\* the sum of the areas of exactly the first k samples; within an iteration
\* one more sample is in hand and no other has been read.
C9_SequentialExactlyOnce ==
  dataset.built /\ pc \in {"loop", "run", "area", "accumulate", "progbar"} =>
    /\ idx <= dataset.len
    /\ progbar_val.value = idx
    /\ pc = "loop" =>
         Len(labels) = idx /\ Len(preds) = idx /\ TotalsOfFirst(idx)
    /\ pc = "run" =>
         /\ idx < dataset.len
         /\ Len(labels) = idx + 1 /\ Len(preds) = idx /\ TotalsOfFirst(idx)
    /\ pc \in {"area", "accumulate"} =>
         Len(labels) = idx + 1 /\ Len(preds) = idx + 1 /\ TotalsOfFirst(idx)
    /\ pc = "progbar" =>
         Len(labels) = idx + 1 /\ Len(preds) = idx + 1
         /\ TotalsOfFirst(idx + 1)

C9_Witness ==
  /\ pc = "loop"
  /\ idx = 2
  /\ dataset.len = 2
  /\ Len(preds) = 2
  /\ progbar_val.value = 2
  /\ \E c \in Classes : At(label_area_all, c) = 3

\* The metric derivation happens once, after the last sample, on the final
\* totals, which it leaves as they were.
DerivedOnceAtEnd ==
  /\ derive_calls <= 1
  /\ pc \in {"parse_args", "main", "test_dataset", "construct", "init",
             "loop", "run", "area", "accumulate", "progbar", "derive"} =>
       derive_calls = 0 /\ metrics = NoMetrics
  /\ derive_calls = 1 =>
       /\ idx = dataset.len
       /\ Len(labels) = dataset.len
       /\ Len(preds) = dataset.len
       /\ TotalsOfFirst(dataset.len)
  /\ pc \in {"report", "average_time", "done"} =>
       derive_calls = 1 /\ metrics = Derived(Totals)

\* The totals when the loop is first reached, before any sample.
AtLoopStart == pc = "loop" /\ idx = 0

\* C10 as stated: the totals start as zero vectors of length C, and the
\* metrics are derived exactly once, after every sample has been
\* accumulated, from the final totals, which are left unchanged.
C10_StartAsZeroVectors ==
  /\ AtLoopStart =>
       /\ intersect_area_all = ZeroVector(dataset.num_classes)
       /\ pred_area_all = ZeroVector(dataset.num_classes)
       /\ label_area_all = ZeroVector(dataset.num_classes)
  /\ DerivedOnceAtEnd

\* C10 as amended: the totals start as the integer 0, and are vectors of
\* length C from the first accumulated sample on; the metrics are derived
\* exactly once, after every sample has been accumulated, from the final
\* totals, which are left unchanged.
C10_StartAsScalarZero ==
  /\ AtLoopStart =>
       /\ intersect_area_all = Scalar(0)
       /\ pred_area_all = Scalar(0)
       /\ label_area_all = Scalar(0)
  /\ FirstAccumulated =>
       \A t \in {intersect_area_all, pred_area_all, label_area_all} :
         t.dim = 1 /\ Len(t.val) = dataset.num_classes
  /\ DerivedOnceAtEnd

C10_Witness ==
  /\ pc = "done"
  /\ dataset.len = 2
  /\ derive_calls = 1
  /\ intersect_area_all.dim = 1
  /\ \E c \in Classes : At(intersect_area_all, c) >= 2

====
